---- MODULE Spec2Model ----
(***************************************************************************)
(* Truncated Karhunen-Loeve simulation of fractional Brownian motion       *)
(* (src/core.py): fbm_covariance_grid and fbm_kl_truncated.                *)
(*                                                                         *)
(* Arithmetic is exact integer arithmetic.  The Hurst parameter is carried *)
(* in quarters: H4 stands for H = H4/4, so 0.0 < H < 1.0 is 0 < H4 < 4 and *)
(* the exponent 2H is H4/2.  Times are integers (a fixed time unit).  The  *)
(* model only follows inputs whose powers, square roots and grid points    *)
(* are exact in the integers; floating-point rounding is not modelled.     *)
(***************************************************************************)
EXTENDS Integers, Sequences, FiniteSets, TLC

\* ------------------------------------------------------------------ bounds
MaxSteps == 2      \* n_steps ranges over 0..MaxSteps
MaxCalls == 3      \* calls two concurrent callers make together
MaxLen == 2        \* length of a grid handed to fbm_covariance_grid
MaxN == 3          \* order of the eigensystems fed to the sort/clip stage

\* ------------------------------------------------------------------ values
None == [kind |-> "None"]

HSet == {-1, 0, 1, 2, 3, 4, 6}        \* H = -0.25, 0, 0.25, 0.5, 0.75, 1, 1.5
TSet == {-1, 0, 16, 144}
SeedSet == {7, 11}                    \* integer seeds a caller passes
EntropySet == {5, 6}                  \* seeds default_rng(None) may pick
GenSet == {"g1", "g2"}                \* caller-owned Generator objects
TimeVals == {-4, -1, 0, 1, 4}         \* grid entries for fbm_covariance_grid
EigVals == {-1, 0, 1, 4}              \* eigenvalues a solver may report

\* seed each caller-owned Generator was built from
GenSeed(g) == IF g = "g1" THEN 11 ELSE 12

\* ------------------------------------------------------------------ numpy
Abs(x) == IF x < 0 THEN -x ELSE x

RECURSIVE SqrtIter(_, _, _)
SqrtIter(x, lo, hi) ==
    IF lo >= hi THEN lo
    ELSE LET mid == (lo + hi + 1) \div 2
         IN  IF mid * mid <= x THEN SqrtIter(x, mid, hi)
                               ELSE SqrtIter(x, lo, mid - 1)

\* np.sqrt on a non-negative value (exact on perfect squares)
Sqrt(x) == SqrtIter(x, 0, x)
IsSquare(x) == x >= 0 /\ Sqrt(x) * Sqrt(x) = x

\* np.power(x, 2.0 * H) for x >= 0 and H = H4/4 in (0, 1)
Power(x, H4) ==
    IF H4 = 2 THEN x
    ELSE IF H4 = 1 THEN Sqrt(x)
    ELSE x * Sqrt(x)

PowerExact(x, H4) == H4 = 2 \/ IsSquare(x)

\* the sequence <<f[1], ..., f[n]>>
RECURSIVE Tabulate(_, _)
Tabulate(f, n) == IF n = 0 THEN <<>> ELSE Append(Tabulate(f, n - 1), f[n])

RECURSIVE SumTo(_, _)
SumTo(f, n) == IF n = 0 THEN 0 ELSE f[n] + SumTo(f, n - 1)

ValueError(msg) == [kind |-> "ValueError", msg |-> msg]
IsError(r) == r.kind = "ValueError"

\* np.asarray(t, dtype=float): an array is its number of dimensions and its
\* entries in row-major order
Array(ndim, data) == [kind |-> "array", ndim |-> ndim, data |-> data]

\* ------------------------------------------------------- fbm_covariance_grid
\* Kernel with the difference raised without np.abs
KernelSigned(s, u, H4) ==
    (Power(Abs(s), H4) + Power(Abs(u), H4) - Power(s - u, H4)) \div 2

\* entry (i, j) of the covariance kernel, lines 34-38
Kernel(s, u, H4) ==
    (Power(Abs(s), H4) + Power(Abs(u), H4) - Power(Abs(s - u), H4)) \div 2

\* FbmCovarianceGrid with the closed interval [0, 1] accepted
FbmCovarianceGridClosedH(t, H4) ==
    IF t.ndim # 1 THEN ValueError(<<"t must be a 1D array of time points.">>)
    ELSE IF ~(0 <= H4 /\ H4 <= 4) THEN ValueError(<<"H must be in (0, 1).">>)
    ELSE [kind |-> "matrix",
          C |-> [i \in 1..Len(t.data) |->
                   [j \in 1..Len(t.data) |-> Kernel(t.data[i], t.data[j], H4)]]]

FbmCovarianceGrid(t, H4) ==
    IF t.ndim # 1 THEN ValueError(<<"t must be a 1D array of time points.">>)
    ELSE IF ~(0 < H4 /\ H4 < 4) THEN ValueError(<<"H must be in (0, 1).">>)
    ELSE [kind |-> "matrix",
          C |-> [i \in 1..Len(t.data) |->
                   [j \in 1..Len(t.data) |-> Kernel(t.data[i], t.data[j], H4)]]]

\* the kernel of grid t is exact in the integers
CovExact(data, H4) ==
    \A i, j \in 1..Len(data) :
        /\ PowerExact(Abs(data[i]), H4)
        /\ PowerExact(Abs(data[i] - data[j]), H4)
        /\ (Power(Abs(data[i]), H4) + Power(Abs(data[j]), H4)
              - Power(Abs(data[i] - data[j]), H4)) % 2 = 0

\* ------------------------------------------------------------ linear algebra
\* the largest matrix order that occurs
MaxOrder == IF MaxN > MaxSteps + 1 THEN MaxN ELSE MaxSteps + 1

PermTable ==
    [N \in 0..MaxOrder |->
        {p \in [1..N -> 1..N] : \A i, j \in 1..N : p[i] = p[j] => i = j}]

Perms(N) == PermTable[N]

\* the orthonormal matrices with integer entries: column j is s[j] * e_p[j]
SignedPermTable ==
    [N \in 0..MaxOrder |->
        {[i \in 1..N |-> [j \in 1..N |-> IF p[j] = i THEN s[j] ELSE 0]] :
            p \in PermTable[N], s \in [1..N -> {1, -1}]}]

SignedPerms(N) == SignedPermTable[N]

AscSeqs(N, vals) ==
    {w \in [1..N -> vals] : \A i \in 1..N : i < N => w[i] <= w[i + 1]}

\* V[:, :K] diag(w[:K]) V[:, :K]^T
Recon(V, w, K) ==
    Tabulate([i \in 1..Len(V) |->
                 Tabulate([j \in 1..Len(V) |->
                              SumTo([k \in 1..K |-> V[i][k] * w[k] * V[j][k]], K)],
                          Len(V))],
             Len(V))

IsDiagonal(C) == \A i, j \in 1..Len(C) : i # j => C[i][j] = 0

\* np.linalg.eigh(C): eigenvalues in ascending order, orthonormal eigenvectors
\* in the columns.  For a diagonal C the outputs are the exact
\* decompositions (the sign of each column is the solver's choice).  The
\* eigenvalues of a non-diagonal C are irrational and its eigenvectors are
\* dense; the solver's output there is a stand-in of the right shape: an
\* ascending sequence over EigVals and an orthonormal V.  Row and column 1
\* of the covariance of a grid that starts at 0 are zero, so the first
\* eigenpair is (0 up to rounding, +-e_1) and the other eigenvalues are
\* positive; the stand-ins give the other columns one common sign.
EighOutputs(C) ==
    LET N == Len(C)
    IN  IF IsDiagonal(C)
        THEN {o \in [w : AscSeqs(N, {C[i][i] : i \in 1..N}), V : SignedPerms(N)] :
                 Recon(o.V, o.w, N) = C}
        ELSE {o \in [w : AscSeqs(N, EigVals), V : SignedPerms(N)] :
                 /\ o.w[1] <= 0 /\ \A k \in 2..N : o.w[k] > 0
                 /\ o.V[1][1] # 0
                 /\ \A i, j, k, l \in 2..N :
                       o.V[i][j] # 0 /\ o.V[k][l] # 0 => o.V[i][j] = o.V[k][l]}

\* np.argsort(w): the permutation that sorts w ascending.  The order among
\* equal keys depends on the sort kernel: tb = "stable" keeps index order,
\* tb = "reversed" reverses it.
Argsort(w, tb) ==
    LET Before(a, b) ==
            \/ w[a] < w[b]
            \/ w[a] = w[b] /\ (IF tb = "stable" THEN a < b ELSE a > b)
        Rank(a) == 1 + Cardinality({b \in 1..Len(w) : Before(b, a)})
    IN  [i \in 1..Len(w) |-> CHOOSE a \in 1..Len(w) : Rank(a) = i]

\* x[::-1]
Reversed(x) == [i \in 1..Len(x) |-> x[Len(x) + 1 - i]]

\* w[idx]
Take(w, idx) == [k \in 1..Len(idx) |-> w[idx[k]]]

\* V[:, idx]
TakeCols(V, idx) == [i \in 1..Len(V) |-> [k \in 1..Len(idx) |-> V[i][idx[k]]]]

\* Clip left out
ClipNone(w) == w

\* np.clip(w, 0.0, None)
Clip(w) == [k \in 1..Len(w) |-> IF w[k] < 0 THEN 0 ELSE w[k]]

\* SortIndex without the reversal: ascending order
SortIndexAscending(w, tb) == Argsort(w, tb)

\* lines 98-102: idx = argsort(w)[::-1]; w = w[idx]; V = V[:, idx]; clip
SortIndex(w, tb) == Reversed(Argsort(w, tb))

SortClip(w, V, tb) ==
    LET idx == SortIndex(w, tb)
    IN  [w |-> Clip(Take(w, idx)), V |-> TakeCols(V, idx)]

Min(a, b) == IF a < b THEN a ELSE b

\* x[:K] for K >= 0
Prefix(x, K) == SubSeq(x, 1, Min(K, Len(x)))

\* np.sqrt(w[:K]) * z with numpy broadcasting, line 111
Coeffs(w, z, K) ==
    LET r == [k \in 1..Len(Prefix(w, K)) |-> Sqrt(Prefix(w, K)[k])]
    IN  IF Len(r) = Len(z) THEN [kind |-> "vector", v |-> [k \in 1..Len(z) |-> r[k] * z[k]]]
        ELSE IF Len(r) = 1 THEN [kind |-> "vector", v |-> [k \in 1..Len(z) |-> r[1] * z[k]]]
        ELSE IF Len(z) = 1 THEN [kind |-> "vector", v |-> [k \in 1..Len(r) |-> r[k] * z[1]]]
        ELSE ValueError(<<"operands could not be broadcast together">>)

\* V[:, :K]
PrefixCols(V, K) == [i \in 1..Len(V) |-> Prefix(V[i], K)]

\* V[:, :K] @ coeffs, line 112
MatVec(V, K, c) ==
    LET VK == PrefixCols(V, K)
        cols == IF Len(VK) = 0 THEN 0 ELSE Len(VK[1])
    IN  IF cols # Len(c) THEN ValueError(<<"matmul: dimension mismatch">>)
        ELSE [kind |-> "vector",
              v |-> [i \in 1..Len(VK) |-> SumTo([k \in 1..cols |-> VK[i][k] * c[k]], cols)]]

\* lines 111-112
PathOf(w, V, z, K) ==
    LET c == Coeffs(w, z, K)
    IN  IF IsError(c) THEN c ELSE MatVec(V, K, c.v)

\* ------------------------------------------------------------ random numbers
\* the i-th standard-normal variate of the stream of a generator seeded with
\* seed (i = 1, 2, ...), in a fixed integer unit
Variate(seed, i) == ((seed + i * i + i) % 13) - 6

\* NormalDraws with one variate too many
NormalDrawsExtra(seed, pos, K) == [k \in 1..(K + 1) |-> Variate(seed, pos + k)]

\* rng.normal(size=K) on a generator at position pos
NormalDraws(seed, pos, K) == [k \in 1..K |-> Variate(seed, pos + k)]

\* ------------------------------------------------------------ fbm_kl_truncated
\* Validate with H = 0 accepted
ValidateClosedH(H4, T, K, n_steps) ==
    IF ~(0 <= H4 /\ H4 < 4) THEN ValueError(<<"H must be in (0, 1).">>)
    ELSE IF n_steps < 1 THEN ValueError(<<"n_steps must be at least 1.">>)
    ELSE IF T <= 0 THEN ValueError(<<"T must be positive.">>)
    ELSE IF ~(1 <= K /\ K <= n_steps + 1)
         THEN ValueError(<<"K must be in [1, ", ToString(n_steps + 1), "], got K=",
                          ToString(K), ".">>)
    ELSE [kind |-> "ok"]

\* Validate without the check of K, which then fails only at line 111
ValidateNoRank(H4, T, K, n_steps) ==
    IF ~(0 < H4 /\ H4 < 4) THEN ValueError(<<"H must be in (0, 1).">>)
    ELSE IF n_steps < 1 THEN ValueError(<<"n_steps must be at least 1.">>)
    ELSE IF T <= 0 THEN ValueError(<<"T must be positive.">>)
    ELSE [kind |-> "ok"]

\* lines 81-90
Validate(H4, T, K, n_steps) ==
    IF ~(0 < H4 /\ H4 < 4) THEN ValueError(<<"H must be in (0, 1).">>)
    ELSE IF n_steps < 1 THEN ValueError(<<"n_steps must be at least 1.">>)
    ELSE IF T <= 0 THEN ValueError(<<"T must be positive.">>)
    ELSE IF ~(1 <= K /\ K <= n_steps + 1)
         THEN ValueError(<<"K must be in [1, ", ToString(n_steps + 1), "], got K=",
                          ToString(K), ".">>)
    ELSE [kind |-> "ok"]

\* Linspace with the endpoint left out (step T / N)
LinspaceOpen(T, N) == [i \in 1..N |-> ((i - 1) * T) \div N]

\* np.linspace(0.0, T, N), line 92
Linspace(T, N) ==
    IF N = 1 THEN <<0>> ELSE [i \in 1..N |-> ((i - 1) * T) \div (N - 1)]

LinspaceExact(T, N) ==
    IF N = 1 THEN TRUE ELSE \A i \in 1..N : ((i - 1) * T) % (N - 1) = 0

\* the inputs whose grid, kernel and square roots are exact in the integers
Representable(H4, T, n_steps) ==
    LET N == n_steps + 1
        t == Linspace(T, N)
    IN  /\ N >= 1
        /\ LinspaceExact(T, N)
        /\ CovExact(t, H4)
        /\ LET C == [i \in 1..N |-> [j \in 1..N |-> Kernel(t[i], t[j], H4)]]
           IN  IsDiagonal(C) => \A i \in 1..N : IsSquare(C[i][i])

\* ---------------------------------------------------------------- the state
Threads == {1, 2}

VARIABLES
    pc,         \* pc[tid]: where thread tid stands in fbm_kl_truncated
    args,       \* args[tid]: H4, T, K, n_steps, random_state of the current call
    loc,        \* loc[tid]: the call's locals t, C, w, V, z (<<>> while unset)
    ret,        \* ret[tid]: what the thread's last finished call returned or raised
    gens,       \* gens[g]: variates drawn so far from caller-owned Generator g
    eighTab,    \* the solver's output for every matrix it has been given
    tiebreak,   \* the tie order of the sort kernel behind np.argsort
    ncalls,     \* calls started
    start,      \* start[tid]: position of the caller's Generator when the call was entered
    drawn,      \* drawn[tid]: variates the current call has consumed
    ranks,      \* ranks[g]: sum of K over the finished successful calls on g
    disturbed,  \* disturbed[tid]: another call drew from this call's Generator
                \*   after this call was entered and before it drew
    covIn,      \* fbm_covariance_grid called on its own: arguments
    covOut,     \*   and result
    eigIn,      \* sort/clip/truncate stage on its own: solver output w, V and K
    eigOut      \*   and the sorted, clipped eigenpairs

callVars == <<pc, args, loc, ret, gens, eighTab, ncalls, start, drawn, ranks, disturbed>>
covVars == <<covIn, covOut>>
eigVars == <<eigIn, eigOut>>
vars == <<callVars, tiebreak, covVars, eigVars>>

NoLocals == [t |-> <<>>, C |-> <<>>, w |-> <<>>, V |-> <<>>, z |-> <<>>]
NoArgs == [H4 |-> 0, T |-> 0, K |-> 0, n_steps |-> 0, rs |-> None]
Nothing == [kind |-> "nothing"]

RsSet ==
    {None} \cup {[kind |-> "int", seed |-> s] : s \in SeedSet}
           \cup {[kind |-> "Generator", id |-> g] : g \in GenSet}

ArgSet ==
    [H4 : HSet, T : TSet, K : 0..(MaxSteps + 2), n_steps : 0..MaxSteps, rs : RsSet]

CallInit ==
    /\ pc = [tid \in Threads |-> "idle"]
    /\ args = [tid \in Threads |-> NoArgs]
    /\ loc = [tid \in Threads |-> NoLocals]
    /\ ret = [tid \in Threads |-> Nothing]
    /\ gens = [g \in GenSet |-> 0]
    /\ eighTab = {}
    /\ ncalls = 0
    /\ start = [tid \in Threads |-> 0]
    /\ drawn = [tid \in Threads |-> 0]
    /\ ranks = [g \in GenSet |-> 0]
    /\ disturbed = [tid \in Threads |-> FALSE]

CovIdle == covIn = Nothing /\ covOut = Nothing
EigIdle == eigIn = Nothing /\ eigOut = Nothing

\* ------------------------------------------------- fbm_kl_truncated, by steps
\* the calls the model follows: rejected ones, and accepted ones whose
\* arithmetic is exact
Enterable(a) ==
    IF IsError(Validate(a.H4, a.T, a.K, a.n_steps))
    THEN TRUE
    ELSE Representable(a.H4, a.T, a.n_steps)

\* a caller enters fbm_kl_truncated(H, T, K, n_steps, random_state)
Call(tid, a, cap) ==
    /\ pc[tid] \in {"idle", "returned", "raised"}
    /\ ncalls < cap
    /\ Enterable(a) = TRUE
    /\ pc' = [pc EXCEPT ![tid] = "validate"]
    /\ args' = [args EXCEPT ![tid] = a]
    /\ loc' = [loc EXCEPT ![tid] = NoLocals]
    /\ ncalls' = ncalls + 1
    /\ ret' = [ret EXCEPT ![tid] = Nothing]
    /\ start' = [start EXCEPT ![tid] = IF a.rs.kind = "Generator" THEN gens[a.rs.id] ELSE 0]
    /\ drawn' = [drawn EXCEPT ![tid] = 0]
    /\ disturbed' = [disturbed EXCEPT ![tid] = FALSE]
    /\ UNCHANGED <<gens, eighTab, ranks, tiebreak, covVars, eigVars>>

\* lines 81-90
DoValidate(tid) ==
    /\ pc[tid] = "validate"
    /\ LET a == args[tid]
           r == Validate(a.H4, a.T, a.K, a.n_steps)
       IN  IF IsError(r)
           THEN /\ pc' = [pc EXCEPT ![tid] = "raised"]
                /\ ret' = [ret EXCEPT ![tid] = r]
           ELSE /\ pc' = [pc EXCEPT ![tid] = "grid"]
                /\ UNCHANGED ret
    /\ UNCHANGED <<args, loc, gens, eighTab, ncalls, start, drawn, ranks, disturbed,
                   tiebreak, covVars, eigVars>>

\* lines 92-94: t = np.linspace(0.0, T, N); C = fbm_covariance_grid(t, H)
Grid(tid) ==
    /\ pc[tid] = "grid"
    /\ LET a == args[tid]
           t == Linspace(a.T, a.n_steps + 1)
           r == FbmCovarianceGrid(Array(1, t), a.H4)
       IN  IF IsError(r)
           THEN /\ pc' = [pc EXCEPT ![tid] = "raised"]
                /\ ret' = [ret EXCEPT ![tid] = r]
                /\ loc' = [loc EXCEPT ![tid].t = t]
           ELSE /\ pc' = [pc EXCEPT ![tid] = "eigh"]
                /\ loc' = [loc EXCEPT ![tid].t = t, ![tid].C = r.C]
                /\ UNCHANGED ret
    /\ UNCHANGED <<args, gens, eighTab, ncalls, start, drawn, ranks, disturbed,
                   tiebreak, covVars, eigVars>>

\* line 96: w, V = np.linalg.eigh(C).  The solver is a function of its input:
\* a matrix it has decomposed before gets the same output again.
EighFor(C, tab) ==
    IF \E e \in tab : e.C = C
    THEN {e.out : e \in {x \in tab : x.C = C}}
    ELSE EighOutputs(C)

Eigh(tid) ==
    /\ pc[tid] = "eigh"
    /\ \E o \in EighFor(loc[tid].C, eighTab) :
          /\ loc' = [loc EXCEPT ![tid].w = o.w, ![tid].V = o.V]
          /\ eighTab' = eighTab \cup {[C |-> loc[tid].C, out |-> o]}
    /\ pc' = [pc EXCEPT ![tid] = "sort"]
    /\ UNCHANGED <<args, ret, gens, ncalls, start, drawn, ranks, disturbed,
                   tiebreak, covVars, eigVars>>

\* lines 98-102
Sort(tid) ==
    /\ pc[tid] = "sort"
    /\ LET s == SortClip(loc[tid].w, loc[tid].V, tiebreak)
       IN  loc' = [loc EXCEPT ![tid].w = s.w, ![tid].V = s.V]
    /\ pc' = [pc EXCEPT ![tid] = "rng"]
    /\ UNCHANGED <<args, ret, gens, eighTab, ncalls, start, drawn, ranks, disturbed,
                   tiebreak, covVars, eigVars>>

\* RngFor with the integer seed ignored: default_rng() draws its own seed
RngForUnseeded(rs, entropy) ==
    IF rs.kind = "Generator" THEN [shared |-> TRUE, id |-> rs.id, seed |-> GenSeed(rs.id)]
    ELSE [shared |-> FALSE, id |-> "fresh", seed |-> entropy]

\* RngFor with one module-level generator used by every call
RngForGlobal(rs, entropy) ==
    [shared |-> TRUE, id |-> "g1", seed |-> GenSeed("g1")]

\* lines 104-107: the generator the call draws from.  A caller's Generator is
\* used as it is; otherwise default_rng builds a fresh one, from the integer
\* seed or, for None, from a seed the operating system picks.
RngFor(rs, entropy) ==
    IF rs.kind = "Generator" THEN [shared |-> TRUE, id |-> rs.id, seed |-> GenSeed(rs.id)]
    ELSE IF rs.kind = "int" THEN [shared |-> FALSE, id |-> "fresh", seed |-> rs.seed]
    ELSE [shared |-> FALSE, id |-> "fresh", seed |-> entropy]

\* lines 104-109: z = rng.normal(size=K); the generator moves on by the
\* variates drawn
Draw(tid) ==
    /\ pc[tid] = "rng"
    /\ \E entropy \in EntropySet :
          LET a == args[tid]
              rng == RngFor(a.rs, entropy)
              pos == IF rng.shared THEN gens[rng.id] ELSE 0
              z == NormalDraws(rng.seed, pos, a.K)
          IN  /\ loc' = [loc EXCEPT ![tid].z = z]
              /\ gens' = IF rng.shared THEN [gens EXCEPT ![rng.id] = @ + Len(z)] ELSE gens
              /\ drawn' = [drawn EXCEPT ![tid] = @ + Len(z)]
              /\ disturbed' =
                    [u \in Threads |->
                        IF /\ u # tid
                           /\ rng.shared
                           /\ pc[u] \in {"validate", "grid", "eigh", "sort", "rng"}
                           /\ args[u].rs = a.rs
                        THEN TRUE
                        ELSE disturbed[u]]
    /\ pc' = [pc EXCEPT ![tid] = "path"]
    /\ UNCHANGED <<args, ret, eighTab, ncalls, start, ranks,
                   tiebreak, covVars, eigVars>>

\* lines 111-114: coeffs, path, return t, path
Path(tid) ==
    /\ pc[tid] = "path"
    /\ LET a == args[tid]
           p == PathOf(loc[tid].w, loc[tid].V, loc[tid].z, a.K)
           r == [kind |-> "return", t |-> loc[tid].t, path |-> p.v]
       IN  IF IsError(p)
           THEN /\ pc' = [pc EXCEPT ![tid] = "raised"]
                /\ ret' = [ret EXCEPT ![tid] = p]
                /\ UNCHANGED <<loc, ranks>>
           ELSE /\ pc' = [pc EXCEPT ![tid] = "returned"]
                /\ ret' = [ret EXCEPT ![tid] = r]
                /\ loc' = [loc EXCEPT ![tid] = NoLocals]
                /\ ranks' = IF a.rs.kind = "Generator"
                            THEN [ranks EXCEPT ![a.rs.id] = @ + a.K]
                            ELSE ranks
    /\ UNCHANGED <<args, gens, eighTab, ncalls, start, drawn, disturbed,
                   tiebreak, covVars, eigVars>>

Init ==
    /\ CallInit
    /\ tiebreak \in {"stable", "reversed"}
    /\ CovIdle
    /\ EigIdle

\* what a call does once entered
Step(tid) ==
    \/ DoValidate(tid)
    \/ Grid(tid)
    \/ Eigh(tid)
    \/ Sort(tid)
    \/ Draw(tid)
    \/ Path(tid)

\* one call, over every argument
Next ==
    \/ \E a \in ArgSet : Call(1, a, 1)
    \/ Step(1)

Spec == Init /\ [][Next]_vars

\* two concurrent callers; the arguments are valid ones on the two-point grid
ParArgs == [H4 : {2}, T : {16}, K : 1..2, n_steps : {1}, rs : RsSet]

NextPar ==
    \/ \E tid \in Threads : \E a \in ParArgs : Call(tid, a, MaxCalls)
    \/ \E tid \in Threads : Step(tid)

InitPar == Init /\ tiebreak = "stable"

SpecPar == InitPar /\ [][NextPar]_vars

\* ------------------------------------------- fbm_covariance_grid on its own
\* what a caller may pass as t: a scalar, a one-dimensional grid (sorted or
\* not, negative times included), a two-dimensional array
Grids ==
    {Array(0, <<x>>) : x \in TimeVals}
        \cup {Array(1, d) : d \in UNION {[1..n -> TimeVals] : n \in 0..MaxLen}}
        \cup {Array(2, d) : d \in UNION {[1..n -> TimeVals] : n \in 1..MaxLen}}

CovEnterable(c) ==
    IF IsError(FbmCovarianceGrid(c.t, c.H4)) THEN TRUE ELSE CovExact(c.t.data, c.H4)

CovCall ==
    /\ covIn # Nothing
    /\ covOut = Nothing
    /\ covOut' = FbmCovarianceGrid(covIn.t, covIn.H4)
    /\ UNCHANGED <<covIn, callVars, tiebreak, eigVars>>

InitCov ==
    /\ CallInit
    /\ tiebreak = "stable"
    /\ EigIdle
    /\ covIn \in {c \in [kind : {"cov"}, t : Grids, H4 : HSet] : CovEnterable(c)}
    /\ covOut = Nothing

NextCov == CovCall

SpecCov == InitCov /\ [][NextCov]_vars

\* ------------------------------------ lines 98-112 on any output of the solver
\* the solver reports ascending eigenvalues (negative ones and ties included)
\* and orthonormal eigenvectors; C is the matrix it has decomposed.  The sign
\* of a column changes neither C nor the order: two sign patterns stand for
\* all of them.
SolverVecs(N) ==
    {[i \in 1..N |-> [j \in 1..N |-> IF p[j] = i THEN s[j] ELSE 0]] :
        p \in Perms(N),
        s \in {[j \in 1..N |-> 1], [j \in 1..N |-> IF j % 2 = 0 THEN 1 ELSE -1]}}

SolverOutputs ==
    UNION {[kind : {"eig"}, w : AscSeqs(N, EigVals), V : SolverVecs(N), K : 1..N] :
              N \in 2..MaxN}

SortTruncate ==
    /\ eigIn # Nothing
    /\ eigOut = Nothing
    /\ LET s == SortClip(eigIn.w, eigIn.V, tiebreak)
       IN  eigOut' = [kind |-> "sorted", w |-> s.w, V |-> s.V,
                      wK |-> Prefix(s.w, eigIn.K), VK |-> PrefixCols(s.V, eigIn.K)]
    /\ UNCHANGED <<eigIn, callVars, tiebreak, covVars>>

InitEig ==
    /\ CallInit
    /\ tiebreak \in {"stable", "reversed"}
    /\ CovIdle
    /\ eigIn \in SolverOutputs
    /\ eigOut = Nothing

NextEig == SortTruncate

SpecEig == InitEig /\ [][NextEig]_vars

\* ================================================================== claims
\* the constraints on the arguments, as the documentation states them
BadH(a) == ~(0 < a.H4 /\ a.H4 < 4)
BadSteps(a) == a.n_steps < 1
BadT(a) == a.T <= 0
BadK(a) == a.K < 1 \/ a.K > a.n_steps + 1
Malformed(a) == BadH(a) \/ BadSteps(a) \/ BadT(a) \/ BadK(a)
OnlyBadK(a) == ~BadH(a) /\ ~BadSteps(a) /\ ~BadT(a) /\ BadK(a)
Validated(tid) == pc[tid] \notin {"idle", "validate"}

\* C1: a call fails with ValueError exactly when H is outside (0, 1), or
\* n_steps < 1, or T <= 0, or K is outside [1, N]; when K is the only
\* offender the message carries both N and K.
C1_Rejection ==
    \A tid \in Threads :
        Validated(tid) =>
            LET a == args[tid]
            IN  /\ Malformed(a) => pc[tid] = "raised" /\ ret[tid].kind = "ValueError"
                /\ ~Malformed(a) => pc[tid] # "raised"
                /\ OnlyBadK(a) =>
                      /\ Len(ret[tid].msg) = 5
                      /\ ret[tid].msg[1] = "K must be in [1, "
                      /\ ret[tid].msg[2] = ToString(a.n_steps + 1)
                      /\ ret[tid].msg[4] = ToString(a.K)

\* a call with K = N + 1 and everything else valid has been rejected
C1_Witness ==
    \E tid \in Threads :
        /\ pc[tid] = "raised"
        /\ OnlyBadK(args[tid])
        /\ args[tid].K = args[tid].n_steps + 2
        /\ args[tid].n_steps = 2

\* C3: a call that fails on a malformed argument fails before the grid, the
\* covariance, the eigendecomposition or any variate: its locals are unset,
\* the solver was never run, it consumed no variate and a Generator it was
\* handed stands where it stood when the call was entered.
C3_Eager ==
    \A tid \in Threads :
        pc[tid] = "raised" /\ Malformed(args[tid]) =>
            /\ loc[tid] = NoLocals
            /\ eighTab = {}
            /\ drawn[tid] = 0
            /\ args[tid].rs.kind = "Generator" => gens[args[tid].rs.id] = start[tid]

\* a call handed a Generator and a rank above N has failed
C3_Witness ==
    \E tid \in Threads :
        /\ pc[tid] = "raised"
        /\ args[tid].rs.kind = "Generator"
        /\ OnlyBadK(args[tid])
        /\ args[tid].K > args[tid].n_steps + 1

\* C6: a successful call returns the N = n_steps + 1 points t_i = i*T/n_steps,
\* from 0 to T inclusive, and a path of N values, whatever K is.
C6_Shape ==
    \A tid \in Threads :
        pc[tid] = "returned" =>
            LET a == args[tid]
                N == a.n_steps + 1
                r == ret[tid]
            IN  /\ r.kind = "return"
                /\ Len(r.t) = N
                /\ \A i \in 1..N : r.t[i] * a.n_steps = (i - 1) * a.T
                /\ r.t[1] = 0 /\ r.t[N] = a.T
                /\ Len(r.path) = N

\* a call with three grid points and K = 1 has returned
C6_Witness ==
    \E tid \in Threads :
        /\ pc[tid] = "returned"
        /\ args[tid].n_steps = 2
        /\ args[tid].K = 1
        /\ Len(ret[tid].path) = 3

\* C2: fbm_covariance_grid raises ValueError exactly when t is not
\* one-dimensional or H is not strictly inside (0, 1); a one-dimensional grid
\* with a valid H yields a matrix whether or not it is sorted or non-negative.
C2_CovRejection ==
    covOut # Nothing =>
        /\ IsError(covOut) <=> (covIn.t.ndim # 1 \/ ~(0 < covIn.H4 /\ covIn.H4 < 4))
        /\ ~IsError(covOut) =>
              /\ covOut.kind = "matrix"
              /\ Len(covOut.C) = Len(covIn.t.data)
              /\ \A i \in 1..Len(covOut.C) : Len(covOut.C[i]) = Len(covIn.t.data)

\* a descending grid with a negative time has produced a matrix
C2_Witness ==
    /\ covOut # Nothing
    /\ covOut.kind = "matrix"
    /\ Len(covIn.t.data) = 2
    /\ covIn.t.data[1] > covIn.t.data[2]
    /\ covIn.t.data[2] < 0

\* C7: for H = 0.5 and non-negative times every entry is min(t_i, t_j); the
\* matrix is symmetric, its diagonal is t and the row and column of a zero
\* time are zero.
C7_Brownian ==
    /\ covOut # Nothing
    /\ covOut.kind = "matrix"
    /\ covIn.H4 = 2
    /\ \A i \in 1..Len(covIn.t.data) : covIn.t.data[i] >= 0
    =>
    LET t == covIn.t.data
        C == covOut.C
    IN  \A i, j \in 1..Len(t) :
            /\ C[i][j] = Min(t[i], t[j])
            /\ C[i][j] = C[j][i]
            /\ C[i][i] = t[i]
            /\ t[i] = 0 => C[i][j] = 0 /\ C[j][i] = 0

\* the matrix of an unsorted non-negative grid that contains 0, at H = 0.5
C7_Witness ==
    /\ covOut # Nothing
    /\ covOut.kind = "matrix"
    /\ covIn.H4 = 2
    /\ covIn.t.data = <<4, 0>>

\* the matrix the solver has decomposed, and the error of the rank-K
\* reconstruction from the sorted, clipped eigenpairs (squared Frobenius norm)
EigN == Len(eigIn.w)
EigC == Recon(eigIn.V, eigIn.w, EigN)

FrobSq(A, B) ==
    SumTo([i \in 1..Len(A) |->
             SumTo([j \in 1..Len(A) |-> (A[i][j] - B[i][j]) * (A[i][j] - B[i][j])],
                   Len(A))],
          Len(A))

\* TruncErrs[K]: the squared error of the rank-K reconstruction
TruncErrs ==
    LET C == EigC
    IN  Tabulate([K \in 1..EigN |-> FrobSq(C, Recon(eigOut.V, eigOut.w, K))], EigN)

TruncErr(K) == TruncErrs[K]

ClippedSq == SumTo([k \in 1..EigN |-> IF eigIn.w[k] < 0 THEN eigIn.w[k] * eigIn.w[k] ELSE 0], EigN)

NonIncreasing(e) == \A K \in 1..(Len(e) - 1) : e[K + 1] <= e[K]

Column(V, k) == [i \in 1..Len(V) |-> V[i][k]]
Apply(C, v) == [i \in 1..Len(C) |-> SumTo([j \in 1..Len(C) |-> C[i][j] * v[j]], Len(C))]
Dot(u, v) == SumTo([i \in 1..Len(u) |-> u[i] * v[i]], Len(u))

\* RawOf[k]: the raw eigenvalue that column k of the sorted V belongs to
\* (its Rayleigh quotient; the columns have norm 1)
RawOf ==
    LET C == EigC
    IN  Tabulate([k \in 1..EigN |->
                     Dot(Column(eigOut.V, k), Apply(C, Column(eigOut.V, k)))], EigN)

\* C9: after sorting and clipping the eigenvalues are non-increasing and
\* non-negative; every sorted column is a column of the solver's output, with
\* that column's eigenvalue (clipped), and no column occurs twice, so one
\* permutation was applied to both and every eigenvalue keeps its eigenvector;
\* the raw eigenvalues run in descending order, positive ones included; the
\* K pairs kept are the first K, those with the largest raw eigenvalues.
C9_SortThenClip ==
    eigOut # Nothing =>
        LET raw == RawOf
            C == EigC
        IN  /\ \A k \in 1..EigN : eigOut.w[k] >= 0
            /\ \A k \in 1..(EigN - 1) : eigOut.w[k] >= eigOut.w[k + 1]
            /\ \A k \in 1..EigN :
                  /\ \E j \in 1..EigN :
                        /\ Column(eigOut.V, k) = Column(eigIn.V, j)
                        /\ eigOut.w[k] = (IF eigIn.w[j] < 0 THEN 0 ELSE eigIn.w[j])
                  /\ \A l \in 1..EigN :
                        l # k => Column(eigOut.V, l) # Column(eigOut.V, k)
            /\ \A k \in 1..EigN :
                  /\ Apply(C, Column(eigOut.V, k))
                        = [i \in 1..EigN |-> raw[k] * eigOut.V[i][k]]
                  /\ eigOut.w[k] = (IF raw[k] < 0 THEN 0 ELSE raw[k])
            /\ \A k \in 1..(EigN - 1) : raw[k] >= raw[k + 1]
            /\ Len(eigOut.wK) = eigIn.K
            /\ \A k \in 1..eigIn.K :
                  /\ eigOut.wK[k] = eigOut.w[k]
                  /\ Column(eigOut.VK, k) = Column(eigOut.V, k)
                  /\ \A j \in (eigIn.K + 1)..EigN : raw[k] >= raw[j]

\* a spectrum with a negative eigenvalue and a tie among the positive ones,
\* truncated below N
C9_Witness ==
    /\ eigOut # Nothing
    /\ eigIn.w = <<-1, 1, 4, 4>> \/ eigIn.w = <<-1, 4, 4>>
    /\ eigIn.K = 2
    /\ eigOut.wK = <<4, 4>>

\* the ranks of the calls on Generator g that have drawn and not yet returned
InFlight(g) ==
    SumTo([tid \in Threads |->
              IF pc[tid] = "path" /\ args[tid].rs = [kind |-> "Generator", id |-> g]
              THEN args[tid].K ELSE 0],
          Cardinality(Threads))

\* C4: a call that draws consumes exactly K variates; a caller's Generator
\* has moved by the sum of the ranks of the calls made on it (a call with an
\* integer seed or None moves no caller's Generator).
C4_Draws ==
    /\ \A tid \in Threads :
          pc[tid] \in {"path", "returned"} =>
              /\ drawn[tid] = args[tid].K
              /\ pc[tid] = "path" => Len(loc[tid].z) = args[tid].K
    /\ \A g \in GenSet : gens[g] = ranks[g] + InFlight(g)

\* two successful calls with ranks 1 and 2 were made on one Generator
C4_Witness ==
    \E g \in GenSet :
        /\ ranks[g] = 3
        /\ gens[g] = 3
        /\ ncalls = 2
        /\ \E h \in GenSet : h # g /\ gens[h] = 0

\* C5: two calls with the same H, T, K, n_steps and the same integer seed
\* return the same grid and the same path.
C5_Reproducible ==
    \A t1, t2 \in Threads :
        /\ pc[t1] = "returned"
        /\ pc[t2] = "returned"
        /\ args[t1].rs.kind = "int"
        /\ args[t1] = args[t2]
        => ret[t1] = ret[t2]

\* two callers have returned from calls with equal arguments and an integer
\* seed, and a third call was made besides
C5_Witness ==
    /\ pc[1] = "returned"
    /\ pc[2] = "returned"
    /\ args[1].rs.kind = "int"
    /\ args[1] = args[2]
    /\ args[1].K = 2
    /\ ncalls = 3
    /\ \E g \in GenSet : gens[g] > 0

\* the seeds the generator of a call may have, by its random_state
SeedsOf(rs) ==
    IF rs.kind = "Generator" THEN {GenSeed(rs.id)}
    ELSE IF rs.kind = "int" THEN {rs.seed}
    ELSE EntropySet

\* the variates a call draws when nothing else touches its generator
AloneDraws(tid) ==
    {[k \in 1..args[tid].K |-> Variate(sd, start[tid] + k)] : sd \in SeedsOf(args[tid].rs)}

\* what the call returns when run on its own from the state it was entered in
AloneResults(tid) ==
    LET a == args[tid]
        N == a.n_steps + 1
        t == [i \in 1..N |-> ((i - 1) * a.T) \div a.n_steps]
        C == [i \in 1..N |-> [j \in 1..N |-> Kernel(t[i], t[j], a.H4)]]
    IN  {[kind |-> "return", t |-> t,
          path |-> PathOf(SortClip(e.out.w, e.out.V, tiebreak).w,
                          SortClip(e.out.w, e.out.V, tiebreak).V, z, a.K).v] :
            e \in {x \in eighTab : x.C = C}, z \in AloneDraws(tid)}

\* C10: unless another call drew from the very Generator a call was handed
\* while that call was under way, the call draws and returns what it would
\* when run alone, under every interleaving; a call whose result differs
\* was therefore handed a Generator that another call shares.
C10_Isolation ==
    \A tid \in Threads :
        /\ disturbed[tid] => args[tid].rs.kind = "Generator"
        /\ ~disturbed[tid] =>
              /\ pc[tid] = "path" => loc[tid].z \in AloneDraws(tid)
              /\ pc[tid] = "returned" => ret[tid] \in AloneResults(tid)

\* two calls on different Generators are both between their draw and their
\* return
C10_Witness ==
    /\ pc[1] = "path"
    /\ pc[2] = "path"
    /\ args[1].rs.kind = "Generator"
    /\ args[2].rs.kind = "Generator"
    /\ args[1].rs # args[2].rs
    /\ ~disturbed[1] /\ ~disturbed[2]

====
